---- MODULE Spec2Model ----
(***************************************************************************)
(* Model of the btwd daemon's decision core (src/src/main.rs): the frame   *)
(* loop of run(), handle_transcript(), and the confirmation-gated Executor *)
(* it drives.  Texts are sequences of one-character strings so that        *)
(* normalize_short, trim and to_ascii_lowercase are computed as the code   *)
(* computes them.                                                          *)
(***************************************************************************)
EXTENDS Integers, Sequences, FiniteSets, TLC

(* ------------------------------------------------------------------ *)
(* Bounds of the model and configuration values (config.toml).        *)
(* ------------------------------------------------------------------ *)
\* The clock (Instant::now) runs over 0..MaxTime.
MaxTime == 2
\* cfg.execution.confirmation_timeout_seconds, in clock units.
ConfirmationTimeout == 2
\* cfg.speech.max_utterance_seconds, in clock units.
MaxUtterance == 1
\* cfg.speech.silence_duration_ms and frame_ms, in the same unit.
SilenceDurationMs == 1
\* Intents the router is asked for in one run (caps the request ids too).
MaxIntents == 2
\* Frames buffered in one recording.
MaxSamples == 2
\* A longer cfg.speech.silence_duration_ms, two frames of silence, and the
\* frames buffered in one recording under it: enough for a silent frame, a
\* speech frame and the two silent frames that end the utterance.
LongSilenceMs == 2
MaxLongSamples == 5
\* deterministic_score and deterministic_threshold range over 0..MaxScore.
MaxScore == 1

(* ------------------------------------------------------------------ *)
(* Characters and strings.                                            *)
(* ------------------------------------------------------------------ *)
LowerSeq == <<"a","b","c","d","e","f","g","h","i","j","k","l","m",
              "n","o","p","q","r","s","t","u","v","w","x","y","z">>
UpperSeq == <<"A","B","C","D","E","F","G","H","I","J","K","L","M",
              "N","O","P","Q","R","S","T","U","V","W","X","Y","Z">>
DigitSeq == <<"0","1","2","3","4","5","6","7","8","9">>

Range(s) == {s[i] : i \in DOMAIN s}

\* char::is_ascii_alphanumeric
is_ascii_alphanumeric(ch) ==
    ch \in Range(LowerSeq) \cup Range(UpperSeq) \cup Range(DigitSeq)

\* char::is_whitespace (the white space of the model's alphabet)
is_whitespace(ch) == ch \in {" ", "\t", "\n"}

\* char::to_ascii_lowercase
to_ascii_lowercase(ch) ==
    IF ch \in Range(UpperSeq)
    THEN LowerSeq[CHOOSE i \in DOMAIN UpperSeq : UpperSeq[i] = ch]
    ELSE ch

RECURSIVE trim_start(_)
trim_start(s) ==
    IF s # <<>> /\ is_whitespace(Head(s)) THEN trim_start(Tail(s)) ELSE s

RECURSIVE trim_end(_)
trim_end(s) ==
    IF s # <<>> /\ is_whitespace(s[Len(s)])
    THEN trim_end(SubSeq(s, 1, Len(s) - 1))
    ELSE s

\* str::trim
trim(s) == trim_end(trim_start(s))

\* str::to_ascii_lowercase
lower(s) == [i \in DOMAIN s |-> to_ascii_lowercase(s[i])]

\* The first loop of normalize_short: keep ASCII alphanumerics and white
\* space, lowercased.
RECURSIVE keep_alnum_space(_)
keep_alnum_space(s) ==
    IF s = <<>> THEN <<>>
    ELSE IF is_ascii_alphanumeric(Head(s)) \/ is_whitespace(Head(s))
         THEN <<to_ascii_lowercase(Head(s))>> \o keep_alnum_space(Tail(s))
         ELSE keep_alnum_space(Tail(s))

\* split_whitespace().collect().join(" ") on an already filtered string:
\* runs of white space become one space, none at either end.
RECURSIVE collapse(_)
collapse(s) ==
    LET t == trim_start(s) IN
    IF t = <<>> THEN <<>>
    ELSE IF is_whitespace(Head(t))
         THEN collapse(t)
         ELSE LET rest == Tail(t) IN
              IF rest = <<>> THEN <<Head(t)>>
              ELSE IF is_whitespace(Head(rest))
                   THEN IF trim_start(rest) = <<>>
                        THEN <<Head(t)>>
                        ELSE <<Head(t), " ">> \o collapse(trim_start(rest))
                   ELSE <<Head(t)>> \o collapse(rest)

normalize_short(s) == collapse(keep_alnum_space(s))

\* The string literals the code compares against.
S_yes     == <<"y","e","s">>
S_confirm == <<"c","o","n","f","i","r","m">>
S_do_it   == <<"d","o"," ","i","t">>
S_no      == <<"n","o">>
S_cancel  == <<"c","a","n","c","e","l">>
S_stop    == <<"s","t","o","p">>

SixWords == {S_yes, S_confirm, S_do_it, S_no, S_cancel, S_stop}

\* Raw texts the ASR worker returns (resp.text), before the trim of line 454.
Texts ==
    { <<" ","Y","e","s","!","\n">>,
      <<"c","o","n","f","i","r","m">>,
      <<"D","o"," "," ","i","t",".">>,
      <<"N","o">>,
      <<"c","a","n","c","e","l">>,
      <<"S","T","O","P","!">>,
      <<"y","e","s"," ","p","l","e","a","s","e">>,
      <<"b","a","n","a","n","a">>,
      <<"?">>,
      <<" ">> }

\* Tokens the confirmation helper (or anyone else) writes into the spool file.
Tokens ==
    { <<"y","e","s","\n">>,
      <<" ","N","O","\n">>,
      <<"m","a","y","b","e">> }

(* ------------------------------------------------------------------ *)
(* State.                                                             *)
(* ------------------------------------------------------------------ *)
VARIABLES
    \* Executor (src/executor.rs, not in the source tree)
    pending,        \* the PendingConfirmation, or None
    request_seq,    \* request ids handed out so far
    executed,       \* the intents executed so far, in order
    outcome,        \* intent id -> where its command stands (section 4.3)
    \* run(): the locals of the loop
    pc,             \* position in the loop body
    state,          \* ListenState
    samples,        \* the utterance buffer, one entry per buffered frame
    silence_ms,
    start_time,     \* Option<Instant>
    saw_post_wake_speech,
    pending_confirm_request_id,
    \* configuration, fixed at start-up
    cfg,
    \* environment
    now,            \* Instant::now()
    spool,          \* request id -> content of btwd-confirm-<id>, or None
    notified,       \* request ids whose confirm helper is waiting for the user
    \* observation of handle_transcript
    intents,        \* calls of intent_router.route so far
    last,           \* what the handle_transcript call that just returned did
    heard,          \* what rx, porcupine and the ASR worker returned this iteration,
                    \* whether the listening notification was issued, how the
                    \* direct LLM call ended and the text it had presented
    \* search::search_and_summarize_async: the detached thread of one question
    th,             \* its arguments, position and locals
    calls,          \* the provider calls it has made, in order
    presented       \* what it has shown (osd) and spoken (speech), in order

exec_vars == <<pending, request_seq, executed, outcome>>
loop_vars == <<pc, state, samples, silence_ms, start_time, saw_post_wake_speech,
               pending_confirm_request_id>>
env_vars  == <<now, spool, notified>>
obs_vars  == <<intents, last, heard>>
search_vars == <<th, calls, presented>>
vars == <<pending, request_seq, executed, outcome, pc, state, samples, silence_ms,
          start_time, saw_post_wake_speech, pending_confirm_request_id,
          cfg, now, spool, notified, intents, last, heard, th, calls, presented>>

\* Option<T>: None is the empty sequence, Some(x) the one-element sequence.
None == <<>>
Some(x) == <<x>>
is_some(o) == o # <<>>
unwrap(o) == o[1]
unwrap_or(o, d) == IF o # <<>> THEN o[1] ELSE d
Option(S) == {None} \cup {Some(x) : x \in S}

RequestIds == 1..MaxIntents
IntentIds  == 1..MaxIntents
CommandIds == {"lights_off"}
Scores     == 0..MaxScore

\* intent::IntentResult as intent_router.route returns it; id numbers the
\* route call that produced it.  requires_confirmation is the field line 75
\* sets for the Executor; the router itself leaves it false.
Routed(id) ==
    [id : {id},
     command_id : Option(CommandIds),
     deterministic_score : Option(Scores),
     dangerous : BOOLEAN,
     requires_confirmation : {FALSE}]

\* A frame as the loop observes it: what vad.is_speech says of it, and its
\* RMS level.
Frames ==
    { [vad |-> TRUE,  rms |-> 0],
      [vad |-> TRUE,  rms |-> 1],
      [vad |-> FALSE, rms |-> 1],
      [vad |-> FALSE, rms |-> 0] }

\* The frames of a microphone whose speech the voice-activity classifier always
\* recognises: speech and silence.
VoiceFrames ==
    { [vad |-> TRUE,  rms |-> 0],
      [vad |-> FALSE, rms |-> 0] }

\* porcupine.process(&frame): Ok(true), Ok(false) or Err.
PorcupineResults == {"wake", "none", "error"}

\* cfg.speech.silence_threshold on the scale of frame.rms
SilenceThreshold == 1
\* frame_ms = frame_length * 1000 / sample_rate
FrameMs == 1

NoLast == [path |-> "none", intent |-> None]

\* Nothing received yet in this iteration.
NoHeard ==
    [recv |-> "none", porcupine |-> "unchecked", asr |-> "uncalled",
     frame |-> None, notify_listening |-> FALSE, llm |-> "uncalled",
     answer |-> None]

\* The search thread before search_and_summarize_async is called.
NoThread ==
    [pc |-> "unborn", question |-> <<>>, ui_enabled |-> FALSE,
     online |-> <<>>, out |-> <<>>, known |-> <<>>, results |-> <<>>,
     facts |-> <<>>, final |-> <<>>, source_label |-> "none"]

\* The configurations with the silence duration d.
Configurations(d) ==
    [deterministic_threshold : Scores, search_enabled : BOOLEAN,
     silence_duration_ms : {d}]

\* The frames one recording may buffer under the configuration.
SampleBound ==
    IF cfg.silence_duration_ms = SilenceDurationMs THEN MaxSamples
    ELSE MaxLongSamples

Started ==
    /\ pending = None
    /\ request_seq = 0
    /\ executed = <<>>
    /\ outcome = [i \in IntentIds |-> "None"]
    /\ pc = "poll"
    /\ state = "Idle"
    /\ samples = <<>>
    /\ silence_ms = 0
    /\ start_time = None
    /\ saw_post_wake_speech = FALSE
    /\ pending_confirm_request_id = None
    /\ now = 0
    /\ spool = [r \in RequestIds |-> None]
    /\ notified = {}
    /\ intents = 0
    /\ last = NoLast
    /\ heard = NoHeard
    /\ th = NoThread
    /\ calls = <<>>
    /\ presented = <<>>

Init == Started /\ cfg \in Configurations(SilenceDurationMs)

\* The same start under the longer silence duration.
SilenceInit == Started /\ cfg \in Configurations(LongSilenceMs)

(* ------------------------------------------------------------------ *)
(* Executor.  Its source file is not part of the tree; the operations  *)
(* are those main.rs calls, with the behaviour the specification's     *)
(* section 4.3 gives them.  Each is the effect on <<pending,           *)
(* request_seq, executed>>.                                            *)
(* ------------------------------------------------------------------ *)
has_pending == is_some(pending)

pending_request_id ==
    IF has_pending THEN Some(unwrap(pending).request_id) ELSE None

\* The state machine of one command:
\* None -> AwaitingConfirmation -> Executed | Canceled | Expired, and
\* None -> Executed for a command that needs no confirmation.
Becomes(intent, status) == outcome' = [outcome EXCEPT ![intent.id] = status]

\* confirm(): executes the stored intent and clears the pending state;
\* a no-op when none is pending.
confirm_pending ==
    IF has_pending
    THEN /\ executed' = Append(executed, unwrap(pending).intent)
         /\ Becomes(unwrap(pending).intent, "Executed")
         /\ pending' = None
         /\ UNCHANGED request_seq
    ELSE UNCHANGED exec_vars

\* cancel(reason): clears the pending state, never executes.
cancel_pending ==
    IF has_pending
    THEN /\ pending' = None
         /\ Becomes(unwrap(pending).intent, "Canceled")
         /\ UNCHANGED <<request_seq, executed>>
    ELSE UNCHANGED exec_vars

\* tick(now): expires the pending confirmation once now - created_at >= timeout.
handle_tick(t) ==
    IF has_pending /\ t - unwrap(pending).created_at >= ConfirmationTimeout
    THEN /\ pending' = None
         /\ Becomes(unwrap(pending).intent, "Expired")
         /\ UNCHANGED <<request_seq, executed>>
    ELSE UNCHANGED exec_vars

\* route(intent): an intent that requires confirmation (the dangerous ones, as
\* main.rs passes them) becomes the PendingConfirmation, with a fresh request
\* id and the current time; any other intent is executed at once.
handle_intent(intent) ==
    IF intent.requires_confirmation
    THEN /\ request_seq' = request_seq + 1
         /\ pending' = Some([request_id |-> request_seq + 1,
                             intent     |-> intent,
                             created_at |-> now])
         /\ Becomes(intent, "AwaitingConfirmation")
         /\ UNCHANGED executed
    ELSE /\ executed' = Append(executed, intent)
         /\ Becomes(intent, "Executed")
         /\ UNCHANGED <<pending, request_seq>>

\* The text form of confirm/cancel.
handle_confirmation_text(norm) ==
    IF norm \in {S_yes, S_confirm, S_do_it} THEN confirm_pending
    ELSE IF norm \in {S_no, S_cancel, S_stop} THEN cancel_pending
    ELSE UNCHANGED exec_vars

(* ------------------------------------------------------------------ *)
(* handle_transcript (main.rs 40-121).                                *)
(* ------------------------------------------------------------------ *)
proceed(norm) == norm \in {S_yes, S_confirm, S_do_it}
cancel(norm)  == norm \in {S_no, S_cancel, S_stop}

\* intent_router.route(text): the router is a collaborator; any IntentResult
\* may come back.
route(text) == Routed(intents + 1)

det_score(routed)            == unwrap_or(routed.deterministic_score, 0)
is_valid_allowlisted(routed) == is_some(routed.command_id)
\* Mutant: the comparison of line 70 turned round.
passed_threshold_flipped(routed) == det_score(routed) <= cfg.deterministic_threshold
passed_threshold(routed)     == det_score(routed) >= cfg.deterministic_threshold

Observe(path, intent) ==
    last' = [path |-> path, intent |-> intent]

\* 1) Confirmation/cancellation, only if a command is pending.
confirmation_phase(norm) ==
    IF ~proceed(norm) /\ ~cancel(norm)
    THEN /\ UNCHANGED exec_vars
         /\ Observe("ignored", None)
    ELSE /\ handle_confirmation_text(norm)
         /\ Observe(IF proceed(norm) THEN "confirm" ELSE "cancel", None)

\* Mutant: the return of line 79 is missing, so a dangerous command is handed
\* to the Executor for confirmation and then once more as it was routed.
command_phase_no_return(routed) ==
    IF routed.dangerous
    THEN /\ request_seq' = request_seq + 1
         /\ pending' = Some([request_id |-> request_seq + 1,
                             intent     |-> [routed EXCEPT !.requires_confirmation = TRUE],
                             created_at |-> now])
         /\ executed' = Append(executed, routed)
         /\ Becomes(routed, "Executed")
         /\ Observe("dangerous_command", Some(routed))
    ELSE /\ handle_intent(routed)
         /\ Observe("command", Some(routed))

\* Mutant: the test of line 73 is lost and every accepted command is sent for
\* confirmation.
command_phase_always_confirms(routed) ==
    /\ handle_intent([routed EXCEPT !.requires_confirmation = TRUE])
    /\ Observe("dangerous_command", Some(routed))

\* 2) Command detection.
command_phase(routed) ==
    IF routed.dangerous
    THEN /\ handle_intent([routed EXCEPT !.requires_confirmation = TRUE])
         /\ Observe("dangerous_command", Some(routed))
    ELSE /\ handle_intent(routed)
         /\ Observe("command", Some(routed))

\* 3) Question routing.
question_phase(text, routed) ==
    LET question == trim(text) IN
    /\ UNCHANGED exec_vars
    /\ IF question = <<>>
       THEN Observe("empty_question", Some(routed))
       ELSE IF cfg.search_enabled
            THEN Observe("question_search", Some(routed))
            ELSE Observe("question_llm", Some(routed))

\* Mutant: the return of line 56 is missing, so input that is neither a
\* confirmation nor a cancellation falls through to command detection.
handle_transcript_falls_through(text) ==
    LET norm == normalize_short(text) IN
    IF has_pending /\ (proceed(norm) \/ cancel(norm))
    THEN /\ confirmation_phase(norm)
         /\ UNCHANGED intents
    ELSE \E routed \in route(text) :
            /\ intents' = intents + 1
            /\ IF is_valid_allowlisted(routed) /\ passed_threshold(routed)
               THEN command_phase(routed)
               ELSE question_phase(text, routed)

\* Mutant: command detection runs first, the pending check after it.
handle_transcript_commands_first(text) ==
    LET norm == normalize_short(text) IN
    \E routed \in route(text) :
       IF is_valid_allowlisted(routed) /\ passed_threshold(routed)
       THEN /\ intents' = intents + 1
            /\ command_phase(routed)
       ELSE IF has_pending
            THEN /\ confirmation_phase(norm)
                 /\ UNCHANGED intents
            ELSE /\ intents' = intents + 1
                 /\ question_phase(text, routed)

handle_transcript(text) ==
    LET norm == normalize_short(text) IN
    IF has_pending
    THEN /\ confirmation_phase(norm)
         /\ UNCHANGED intents
    ELSE \E routed \in route(text) :
            /\ intents' = intents + 1
            /\ IF is_valid_allowlisted(routed) /\ passed_threshold(routed)
               THEN command_phase(routed)
               ELSE question_phase(text, routed)

(* ------------------------------------------------------------------ *)
(* run(): the loop (main.rs 268-476), one action per step between two  *)
(* points where time passes or the outside world is read.             *)
(* ------------------------------------------------------------------ *)
ResetListen ==
    /\ state' = "Idle"
    /\ samples' = <<>>
    /\ silence_ms' = 0
    /\ start_time' = None
    /\ saw_post_wake_speech' = FALSE

\* Mutant: every token other than "no" confirms.
consume_token_lenient(req_id) ==
    LET act == lower(trim(unwrap(spool[req_id]))) IN
    /\ spool' = [spool EXCEPT ![req_id] = None]
    /\ IF act = S_no
       THEN /\ cancel_pending
            /\ pending_confirm_request_id' = None
       ELSE /\ confirm_pending
            /\ pending_confirm_request_id' = None
    /\ UNCHANGED notified

\* Mutant: the two branches took each other's body.
consume_token_swapped(req_id) ==
    LET act == lower(trim(unwrap(spool[req_id]))) IN
    /\ spool' = [spool EXCEPT ![req_id] = None]
    /\ IF act = S_no
       THEN /\ confirm_pending
            /\ pending_confirm_request_id' = None
       ELSE IF act = S_yes
            THEN /\ cancel_pending
                 /\ pending_confirm_request_id' = None
            ELSE UNCHANGED <<exec_vars, pending_confirm_request_id>>
    /\ UNCHANGED notified

\* Mutant: the spool file is left where it is.
consume_token_keeps_file(req_id) ==
    LET act == lower(trim(unwrap(spool[req_id]))) IN
    /\ IF act = S_no
       THEN /\ cancel_pending
            /\ pending_confirm_request_id' = None
       ELSE IF act = S_yes
            THEN /\ confirm_pending
                 /\ pending_confirm_request_id' = None
            ELSE UNCHANGED <<exec_vars, pending_confirm_request_id>>
    /\ UNCHANGED <<spool, notified>>

\* Lines 274-287: the spool file of the pending request exists; it is read and
\* removed, and its trimmed, lowercased content acted on.
consume_token(req_id) ==
    LET act == lower(trim(unwrap(spool[req_id]))) IN
    /\ spool' = [spool EXCEPT ![req_id] = None]
    /\ IF act = S_no
       THEN /\ cancel_pending
            /\ pending_confirm_request_id' = None
       ELSE IF act = S_yes
            THEN /\ confirm_pending
                 /\ pending_confirm_request_id' = None
            ELSE UNCHANGED <<exec_vars, pending_confirm_request_id>>
    /\ UNCHANGED notified

\* Lines 288-294: no spool file yet; the confirm notification is shown once per
\* request id.
notify_once(req_id) ==
    /\ IF pending_confirm_request_id # Some(req_id)
       THEN /\ pending_confirm_request_id' = Some(req_id)
            /\ notified' = notified \cup {req_id}
       ELSE UNCHANGED <<pending_confirm_request_id, notified>>
    /\ UNCHANGED <<exec_vars, spool>>

\* Mutant: with a confirmation pending, the poll takes whichever spool file
\* there is.
Poll_reads_any_token ==
    /\ pc = "poll"
    /\ IF is_some(pending_request_id)
       THEN LET req_id == unwrap(pending_request_id) IN
            IF \E r \in RequestIds : is_some(spool[r])
            THEN consume_token(CHOOSE r \in RequestIds : is_some(spool[r]))
            ELSE notify_once(req_id)
       ELSE /\ pending_confirm_request_id' = None
            /\ UNCHANGED <<exec_vars, spool, notified>>
    /\ pc' = "recv"
    /\ last' = NoLast
    /\ heard' = NoHeard
    /\ UNCHANGED <<state, samples, silence_ms, start_time, saw_post_wake_speech,
                   cfg, now, intents, search_vars>>

\* Lines 271-297: the confirmation poll at the head of the loop body.
Poll ==
    /\ pc = "poll"
    /\ IF is_some(pending_request_id)
       THEN LET req_id == unwrap(pending_request_id) IN
            IF is_some(spool[req_id])
            THEN consume_token(req_id)
            ELSE notify_once(req_id)
       ELSE /\ pending_confirm_request_id' = None
            /\ UNCHANGED <<exec_vars, spool, notified>>
    /\ pc' = "recv"
    /\ last' = NoLast
    /\ heard' = NoHeard
    /\ UNCHANGED <<state, samples, silence_ms, start_time, saw_post_wake_speech,
                   cfg, now, intents, search_vars>>

\* Mutant: a failed receive is retried in the next iteration.
RecvClosed_retries ==
    /\ pc = "recv"
    /\ pc' = "poll"
    /\ heard' = [heard EXCEPT !.recv = "closed"]
    /\ UNCHANGED <<exec_vars, state, samples, silence_ms, start_time,
                   saw_post_wake_speech, pending_confirm_request_id,
                   cfg, env_vars, intents, last, search_vars>>

\* Lines 299-305: rx.recv() fails because the audio thread hung up, and run()
\* returns the error.
RecvClosed ==
    /\ pc = "recv"
    /\ pc' = "done"
    /\ heard' = [heard EXCEPT !.recv = "closed"]
    /\ UNCHANGED <<exec_vars, state, samples, silence_ms, start_time,
                   saw_post_wake_speech, pending_confirm_request_id,
                   cfg, env_vars, intents, last, search_vars>>

\* Lines 351-361 (Listening) and 394-403 (Recording): the speech decision.
rms_speech(f)        == f.rms >= SilenceThreshold
listening_speech(f)  == f.vad \/ rms_speech(f)
\* Mutant: in Recording the classifier alone decides what is silence.
recording_silence_vad_only(f) == ~f.vad
recording_silence(f) == ~f.vad /\ f.rms < SilenceThreshold

\* Mutant: the tick is not called.
Tick_skipped == UNCHANGED exec_vars

\* Line 308: the tick every received frame is followed by.
Tick == handle_tick(now)

\* What the iteration has heard once the frame f was received and porcupine, if
\* it was asked, gave the verdict v; both wake branches call
\* ui::notify_listening (lines 322 and 342).
Heard(f, v) ==
    heard' = [recv |-> "frame", porcupine |-> v, asr |-> "uncalled",
              frame |-> Some(f), notify_listening |-> (v = "wake"),
              llm |-> "uncalled", answer |-> None]

\* Lines 325-330 and 343-346: the buffer and the counters are cleared on a wake
\* word; the frame that carried it is dropped.
Rearm ==
    /\ samples' = <<>>
    /\ silence_ms' = 0
    /\ start_time' = None
    /\ saw_post_wake_speech' = FALSE

\* Mutant: frames are buffered while Idle, a pre-roll for the recording.
FrameIdle_prerolls(Source) ==
    /\ pc = "recv"
    /\ state = "Idle"
    /\ Tick
    /\ \E f \in Source, porcupine \in PorcupineResults :
       /\ Heard(f, porcupine)
       /\ IF porcupine = "error"
          THEN /\ pc' = "done"
               /\ UNCHANGED <<state, samples, silence_ms, start_time,
                              saw_post_wake_speech>>
          ELSE IF porcupine = "wake"
          THEN /\ state' = "Listening"
               /\ Rearm
               /\ pc' = "poll"
          ELSE /\ pc' = "poll"
               /\ samples' = IF Len(samples) < MaxSamples
                             THEN Append(samples, f) ELSE samples
               /\ UNCHANGED <<state, silence_ms, start_time, saw_post_wake_speech>>
    /\ UNCHANGED <<pending_confirm_request_id, cfg, env_vars, intents, last,
                   search_vars>>

\* Lines 299-334: a frame is received in Idle.
FrameIdle(Source) ==
    /\ pc = "recv"
    /\ state = "Idle"
    /\ Tick
    /\ \E f \in Source, porcupine \in PorcupineResults :
       /\ Heard(f, porcupine)
       /\ IF porcupine = "error"
          THEN /\ pc' = "done"
               /\ UNCHANGED <<state, samples, silence_ms, start_time,
                              saw_post_wake_speech>>
          ELSE IF porcupine = "wake"
          THEN /\ state' = "Listening"
               /\ Rearm
               /\ pc' = "poll"
          ELSE /\ pc' = "poll"
               /\ UNCHANGED <<state, samples, silence_ms, start_time,
                              saw_post_wake_speech>>
    /\ UNCHANGED <<pending_confirm_request_id, cfg, env_vars, intents, last,
                   search_vars>>

\* Mutant: the frame of a re-wake is taken as the first frame of the utterance.
FrameListening_keeps_wake_frame(Source) ==
    /\ pc = "recv"
    /\ state = "Listening"
    /\ Tick
    /\ \E f \in Source, porcupine \in PorcupineResults :
       /\ Heard(f, porcupine)
       /\ IF porcupine = "error"
          THEN /\ pc' = "done"
               /\ UNCHANGED <<state, samples, silence_ms, start_time,
                              saw_post_wake_speech>>
          ELSE IF porcupine = "wake" \/ listening_speech(f)
          THEN /\ state' = "Recording"
               /\ samples' = <<f>>
               /\ silence_ms' = 0
               /\ start_time' = Some(now)
               /\ saw_post_wake_speech' = TRUE
               /\ pc' = "poll"
          ELSE /\ pc' = "poll"
               /\ UNCHANGED <<state, samples, silence_ms, start_time,
                              saw_post_wake_speech>>
    /\ UNCHANGED <<pending_confirm_request_id, cfg, env_vars, intents, last,
                   search_vars>>

\* Mutant: a frame without wake word and without speech ends the wait.
FrameListening_gives_up(Source) ==
    /\ pc = "recv"
    /\ state = "Listening"
    /\ Tick
    /\ \E f \in Source, porcupine \in PorcupineResults :
       /\ Heard(f, porcupine)
       /\ IF porcupine = "error"
          THEN /\ pc' = "done"
               /\ UNCHANGED <<state, samples, silence_ms, start_time,
                              saw_post_wake_speech>>
          ELSE IF porcupine = "wake"
          THEN /\ Rearm
               /\ pc' = "poll"
               /\ UNCHANGED state
          ELSE IF listening_speech(f)
          THEN /\ state' = "Recording"
               /\ samples' = <<f>>
               /\ silence_ms' = 0
               /\ start_time' = Some(now)
               /\ saw_post_wake_speech' = TRUE
               /\ pc' = "poll"
          ELSE /\ pc' = "poll"
               /\ state' = "Idle"
               /\ UNCHANGED <<samples, silence_ms, start_time,
                              saw_post_wake_speech>>
    /\ UNCHANGED <<pending_confirm_request_id, cfg, env_vars, intents, last,
                   search_vars>>

\* Mutant: the recording starts without the post-wake-speech flag being set.
FrameListening_forgets_flag(Source) ==
    /\ pc = "recv"
    /\ state = "Listening"
    /\ Tick
    /\ \E f \in Source, porcupine \in PorcupineResults :
       /\ Heard(f, porcupine)
       /\ IF porcupine = "error"
          THEN /\ pc' = "done"
               /\ UNCHANGED <<state, samples, silence_ms, start_time,
                              saw_post_wake_speech>>
          ELSE IF porcupine = "wake"
          THEN /\ Rearm
               /\ pc' = "poll"
               /\ UNCHANGED state
          ELSE IF listening_speech(f)
          THEN /\ state' = "Recording"
               /\ samples' = <<f>>
               /\ silence_ms' = 0
               /\ start_time' = Some(now)
               /\ saw_post_wake_speech' = saw_post_wake_speech
               /\ pc' = "poll"
          ELSE /\ pc' = "poll"
               /\ UNCHANGED <<state, samples, silence_ms, start_time,
                              saw_post_wake_speech>>
    /\ UNCHANGED <<pending_confirm_request_id, cfg, env_vars, intents, last,
                   search_vars>>

\* Lines 299-316 and 335-387: a frame is received in Listening.
FrameListening(Source) ==
    /\ pc = "recv"
    /\ state = "Listening"
    /\ Tick
    /\ \E f \in Source, porcupine \in PorcupineResults :
       /\ Heard(f, porcupine)
       /\ IF porcupine = "error"
          THEN /\ pc' = "done"
               /\ UNCHANGED <<state, samples, silence_ms, start_time,
                              saw_post_wake_speech>>
          ELSE IF porcupine = "wake"
          THEN /\ Rearm
               /\ pc' = "poll"
               /\ UNCHANGED state
          ELSE IF listening_speech(f)
          THEN /\ state' = "Recording"
               /\ samples' = <<f>>
               /\ silence_ms' = 0
               /\ start_time' = Some(now)
               /\ saw_post_wake_speech' = TRUE
               /\ pc' = "poll"
          ELSE /\ pc' = "poll"
               /\ UNCHANGED <<state, samples, silence_ms, start_time,
                              saw_post_wake_speech>>
    /\ UNCHANGED <<pending_confirm_request_id, cfg, env_vars, intents, last,
                   search_vars>>

\* Mutant: a speech frame leaves the silence counter where it is.
silence_after_accumulates(f) ==
    IF recording_silence(f) THEN silence_ms + FrameMs ELSE silence_ms

\* Lines 394-407: the silence counter after the frame f.
silence_after(f) == IF recording_silence(f) THEN silence_ms + FrameMs ELSE 0

\* Line 409: the time since the recording started.
elapsed == IF is_some(start_time) THEN now - unwrap(start_time) ELSE 0

\* Mutant: the utterance ends only when both limits are reached.
utterance_ends_on_both(silence) ==
    silence >= cfg.silence_duration_ms /\ elapsed >= MaxUtterance

\* Mutant: only silence ends an utterance.
utterance_ends_ignores_elapsed(silence) ==
    silence >= cfg.silence_duration_ms

\* Lines 411-412: the end of the utterance.
utterance_ends(silence) ==
    silence >= cfg.silence_duration_ms \/ elapsed >= MaxUtterance

\* Mutant: the frame on which the utterance ends is not buffered.
FrameRecording_drops_end_frame(Source) ==
    /\ pc = "recv"
    /\ state = "Recording"
    /\ Len(samples) < SampleBound
    /\ Tick
    /\ \E f \in Source :
       LET buffered == Append(samples, f)
           silence  == silence_after(f)
       IN IF utterance_ends(silence)
          THEN IF saw_post_wake_speech /\ buffered # <<>>
               THEN /\ samples' = samples
                    /\ silence_ms' = silence
                    /\ pc' = "asr"
                    /\ Heard(f, "unchecked")
                    /\ UNCHANGED <<state, start_time, saw_post_wake_speech>>
               ELSE /\ ResetListen
                    /\ pc' = "poll"
                    /\ heard' = [recv |-> "frame", porcupine |-> "unchecked",
                                 asr |-> "skipped", frame |-> Some(f),
                                 notify_listening |-> FALSE,
                                 llm |-> "uncalled", answer |-> None]
          ELSE /\ samples' = buffered
               /\ silence_ms' = silence
               /\ pc' = "poll"
               /\ Heard(f, "unchecked")
               /\ UNCHANGED <<state, start_time, saw_post_wake_speech>>
    /\ UNCHANGED <<pending_confirm_request_id, cfg, env_vars, intents, last,
                   search_vars>>

\* Lines 299-316, 388-446 and 465-475: a frame is received in Recording.  It is
\* buffered, the silence counter is updated and the end of the utterance is
\* decided; at the end either the ASR worker is called (the call returns in
\* AsrOk or AsrErr) or it is skipped and the state reset.
FrameRecording(Source) ==
    /\ pc = "recv"
    /\ state = "Recording"
    /\ Len(samples) < SampleBound
    /\ Tick
    /\ \E f \in Source :
       LET buffered == Append(samples, f)
           silence  == silence_after(f)
       IN IF utterance_ends(silence)
          THEN IF saw_post_wake_speech /\ buffered # <<>>
               THEN /\ samples' = buffered
                    /\ silence_ms' = silence
                    /\ pc' = "asr"
                    /\ Heard(f, "unchecked")
                    /\ UNCHANGED <<state, start_time, saw_post_wake_speech>>
               ELSE /\ ResetListen
                    /\ pc' = "poll"
                    /\ heard' = [recv |-> "frame", porcupine |-> "unchecked",
                                 asr |-> "skipped", frame |-> Some(f),
                                 notify_listening |-> FALSE,
                                 llm |-> "uncalled", answer |-> None]
          ELSE /\ samples' = buffered
               /\ silence_ms' = silence
               /\ pc' = "poll"
               /\ Heard(f, "unchecked")
               /\ UNCHANGED <<state, start_time, saw_post_wake_speech>>
    /\ UNCHANGED <<pending_confirm_request_id, cfg, env_vars, intents, last,
                   search_vars>>

\* Lines 446-462: worker.transcribe returned Ok(resp); a non-empty resp.error is
\* logged, and the trimmed resp.text goes to handle_transcript whatever
\* resp.error holds.  A question with search disabled leaves the loop inside
\* llm_client.answer_short (line 113); every other path returns at once and the
\* state is reset (lines 469-474).
AsrOk ==
    /\ pc = "asr"
    /\ has_pending \/ intents < MaxIntents
    /\ \E raw_text \in Texts, error \in BOOLEAN :
          /\ handle_transcript(trim(raw_text))
          /\ heard' = [heard EXCEPT !.asr = IF error THEN "error_field" ELSE "ok"]
    /\ IF last'.path = "question_llm"
       THEN /\ pc' = "llm"
            /\ UNCHANGED <<state, samples, silence_ms, start_time,
                           saw_post_wake_speech>>
       ELSE /\ ResetListen
            /\ pc' = "poll"
    /\ UNCHANGED <<pending_confirm_request_id, cfg, env_vars, search_vars>>

\* Lines 463 and 469-474: worker.transcribe returned Err.
AsrErr ==
    /\ pc = "asr"
    /\ ResetListen
    /\ pc' = "poll"
    /\ heard' = [heard EXCEPT !.asr = "failed"]
    /\ UNCHANGED <<exec_vars, pending_confirm_request_id, cfg,
                   env_vars, intents, last, search_vars>>

(* ------------------------------------------------------------------ *)
(* The LLM client (src/src/llm.rs) as main.rs and search.rs call it.   *)
(* ------------------------------------------------------------------ *)
\* The sentinel of the knowledge check (search.rs 5-6).
KNOWLEDGE_CHECK_SENTINEL ==
    <<"I"," ","d","o"," ","n","o","t"," ","h","a","v","e"," ","e","n","o",
      "u","g","h"," ","u","p","-","t","o","-","d","a","t","e"," ","i","n",
      "f","o","r","m","a","t","i","o","n"," ","t","o"," ","a","n","s","w",
      "e","r"," ","t","h","i","s",".">>

\* The message contents a chat completion comes back with: the sentinel, the
\* sentinel in white space, the sentinel without its full stop, a vague
\* disclaimer, an answer in white space, and two that are empty once trimmed.
Replies ==
    { KNOWLEDGE_CHECK_SENTINEL,
      <<" ">> \o KNOWLEDGE_CHECK_SENTINEL \o <<"\n">>,
      SubSeq(KNOWLEDGE_CHECK_SENTINEL, 1, Len(KNOWLEDGE_CHECK_SENTINEL) - 1),
      <<"I"," ","d","o","n","'","t"," ","h","a","v","e"," ","r","e","a","l",
      "-","t","i","m","e"," ","d","a","t","a">>,
      <<" ","P","a","r","i","s","."," ">>,
      <<>>,
      <<" ","\n">> }

\* Result<String, String> as far as the workflow looks at it.
Ok(x) == <<"Ok", x>>
Err   == <<"Err">>

\* GroqClient::answer_short and MistralClient::answer_short (llm.rs 76-96 and
\* 196-224), the two clients main.rs builds: a failed request (no content) and
\* a content that is blank are errors, any other content is returned trimmed.
answer_short(content) ==
    IF content = None THEN Err
    ELSE IF trim(unwrap(content)) = <<>> THEN Err
    ELSE Ok(trim(unwrap(content)))

\* Line 115: the text that stands for the answer when the call failed (the
\* apostrophe written in ASCII), one token of text.
FallbackMessage == <<"I don't know.">>

\* Mutant: an error of the LLM call is propagated and ends run().
LlmAnswer_propagates_error ==
    /\ pc = "llm"
    /\ \E content \in Option(Replies) :
          LET reply == answer_short(content) IN
          IF reply = Err
          THEN /\ pc' = "done"
               /\ heard' = [heard EXCEPT
                       !.llm = IF content = None THEN "http_error" ELSE "empty"]
               /\ UNCHANGED <<state, samples, silence_ms, start_time,
                              saw_post_wake_speech>>
          ELSE /\ ResetListen
               /\ pc' = "poll"
               /\ heard' = [heard EXCEPT !.llm = "ok", !.answer = Some(reply[2])]
    /\ UNCHANGED <<exec_vars, pending_confirm_request_id, cfg,
                   env_vars, intents, last, search_vars>>

\* Lines 113-120 and 469-474: llm_client.answer_short returns, with an answer or
\* with an error (a failed request, or a blank content) that becomes the
\* fallback text; the text goes to ui::notify_text and, when speech output is
\* enabled, to tts::speak_async; handle_transcript returns and the state is
\* reset.
LlmAnswer ==
    /\ pc = "llm"
    /\ \E content \in Option(Replies) :
          LET reply == answer_short(content)
              ans   == IF reply = Err THEN FallbackMessage ELSE reply[2]
          IN heard' = [heard EXCEPT
                 !.llm = IF content = None THEN "http_error"
                         ELSE IF reply = Err THEN "empty" ELSE "ok",
                 !.answer = Some(ans)]
    /\ ResetListen
    /\ pc' = "poll"
    /\ UNCHANGED <<exec_vars, pending_confirm_request_id, cfg,
                   env_vars, intents, last, search_vars>>

(* ------------------------------------------------------------------ *)
(* Environment.                                                       *)
(* ------------------------------------------------------------------ *)
\* Time passes.  The loop reads the clock only after rx.recv() and inside the
\* call that follows worker.transcribe; these and the direct LLM call are the
\* places where it blocks.
ClockAdvance ==
    /\ pc \in {"recv", "asr", "llm"}
    /\ now < MaxTime
    /\ now' = now + 1
    /\ UNCHANGED <<exec_vars, loop_vars, cfg, spool, notified, obs_vars,
                   search_vars>>

\* The helper started by ui::notify_confirm_actions (ui.rs 138-153) writes the
\* user's choice, a single token, into the spool file keyed by the request id it
\* was given, and exits.  The loop looks at the spool only in its poll, so a
\* write at any other point of the iteration is a write just before the poll.
WriteToken ==
    /\ pc = "poll"
    /\ \E rid \in notified, tok \in Tokens :
          /\ spool' = [spool EXCEPT ![rid] = Some(tok)]
          /\ notified' = notified \ {rid}
    /\ UNCHANGED <<exec_vars, loop_vars, cfg, now, obs_vars, search_vars>>

Next ==
    \/ Poll
    \/ RecvClosed
    \/ FrameIdle(VoiceFrames)
    \/ FrameListening(VoiceFrames)
    \/ FrameRecording(VoiceFrames)
    \/ AsrOk
    \/ AsrErr
    \/ LlmAnswer
    \/ ClockAdvance
    \/ WriteToken

Spec == Init /\ [][Next]_vars

\* The loop under a clock that does not stop: Instant::now() (line 308) grows
\* whenever the thread is blocked in rx.recv() or in a provider call.
LiveSpec == Spec /\ SF_vars(ClockAdvance)

\* The same loop fed by a microphone whose frames may also be loud without being
\* classified as speech, so that the RMS fallback of lines 360 and 403 decides.
FrameNext ==
    \/ Poll
    \/ RecvClosed
    \/ FrameIdle(Frames)
    \/ FrameListening(Frames)
    \/ FrameRecording(Frames)
    \/ AsrOk
    \/ AsrErr
    \/ LlmAnswer
    \/ ClockAdvance
    \/ WriteToken

FrameSpec == Init /\ [][FrameNext]_vars

\* The loop under the longer silence duration, with an ASR worker that is down:
\* every utterance ends in the Err arm of line 463, so that no transcript is
\* handled and the recordings can be followed over more frames.
SilenceNext ==
    \/ Poll
    \/ RecvClosed
    \/ FrameIdle(Frames)
    \/ FrameListening(Frames)
    \/ FrameRecording(Frames)
    \/ AsrErr
    \/ ClockAdvance

SilenceSpec == SilenceInit /\ [][SilenceNext]_vars

(* ------------------------------------------------------------------ *)
(* The search workflow (src/src/search.rs): the thread that            *)
(* search_and_summarize_async detaches for one question.  In Spec the  *)
(* dispatch of line 100 of main.rs is the path "question_search"; the  *)
(* life of the thread it starts is SearchSpec.                         *)
(* ------------------------------------------------------------------ *)
\* The questions handle_transcript dispatches (main.rs 90-101): the trimmed
\* transcripts that are not empty.
Questions == {trim(t) : t \in Texts} \ {<<>>}

\* The fixed messages of lines 133 and 176, each one token of text (the
\* apostrophe of the second and the dash of line 261 are written in ASCII).
OfflineMessage == <<"No internet connection. Cannot fetch web results.">>
ApologyMessage == <<"I couldn't find reliable information.">>

\* KnownOrUnknown
Known(ans) == <<"Known", ans>>
Unknown    == <<"Unknown">>

\* The prompts of lines 69-73 and 95-99: the fixed wording of each, with the
\* texts formatted into it.
knowledge_prompt(query) ==
    [kind |-> "knowledge_check", sentinel |-> Some(KNOWLEDGE_CHECK_SENTINEL),
     question |-> query, facts |-> None]
\* Mutant: the second stage asks the question of the first stage again.
compose_prompt_reuses_question(query, facts_text) ==
    [kind |-> "knowledge_check", sentinel |-> Some(KNOWLEDGE_CHECK_SENTINEL),
     question |-> query, facts |-> None]
compose_prompt(query, facts_text) ==
    [kind |-> "compose", sentinel |-> None,
     question |-> query, facts |-> Some(facts_text)]
search_request(query) ==
    [kind |-> "search", sentinel |-> None, question |-> query, facts |-> None]

\* Mutant: the reply is compared with the sentinel as it came, untrimmed.
answer_with_llm_if_known_untrimmed(out) ==
    IF out = KNOWLEDGE_CHECK_SENTINEL THEN Unknown
    ELSE IF trim(out) = <<>> THEN Unknown
    ELSE Known(trim(out))

\* Lines 75-84 of answer_with_llm_if_known, for a reply Ok(out).
answer_with_llm_if_known(out) ==
    IF trim(out) = KNOWLEDGE_CHECK_SENTINEL THEN Unknown
    ELSE LET ans == trim(out) IN
         IF ans = <<>> THEN Unknown
         ELSE Known(ans)

\* tavily_search, lines 243-274: one result flattened to a chunk.
chunk_of(r) ==
    LET title   == trim(r.title)
        url     == trim(r.url)
        content == trim(r.content)
        c1 == title
        c2 == IF url # <<>>
              THEN (IF c1 # <<>> THEN c1 \o <<" ", "-", " ">> ELSE c1) \o url
              ELSE c1
    IN IF content # <<>>
       THEN (IF c2 # <<>> THEN c2 \o <<"\n">> ELSE c2) \o content
       ELSE c2

\* Lines 239-276: the non-empty chunks, in order.
RECURSIVE facts_lines(_)
facts_lines(results) ==
    IF results = <<>> THEN <<>>
    ELSE LET chunk == chunk_of(Head(results)) IN
         IF chunk # <<>> THEN <<chunk>> \o facts_lines(Tail(results))
         ELSE facts_lines(Tail(results))

\* Line 284: lines.join("\n\n")
RECURSIVE join_blank_line(_)
join_blank_line(lines) ==
    IF lines = <<>> THEN <<>>
    ELSE IF Len(lines) = 1 THEN lines[1]
    ELSE lines[1] \o <<"\n", "\n">> \o join_blank_line(Tail(lines))

\* Lines 278-285: no usable result is an error, otherwise the facts block.
facts_text(results) ==
    IF facts_lines(results) = <<>> THEN Err
    ELSE Ok(join_blank_line(facts_lines(results)))

\* Result lists of the web-search provider.
ResultFull  == [title |-> <<"T">>, url |-> <<"u">>, content |-> <<"c">>]
ResultBare  == [title |-> <<" ">>, url |-> <<>>, content |-> <<"d", " ">>]
ResultBlank == [title |-> <<>>, url |-> <<" ">>, content |-> <<>>]
TavilyResults ==
    { <<>>, <<ResultBlank>>, <<ResultFull>>, <<ResultFull, ResultBlank, ResultBare>> }

\* Everything the thread does not touch.
main_vars == <<exec_vars, loop_vars, cfg, env_vars, obs_vars>>

\* Lines 110-122: search_and_summarize_async is called with a question; it
\* returns at once when search is disabled, and otherwise detaches the thread.
Spawn ==
    /\ th.pc = "unborn"
    /\ \E question \in Questions, ui_enabled \in BOOLEAN :
          th' = [th EXCEPT !.pc = IF cfg.search_enabled THEN "probe" ELSE "done",
                           !.question = question,
                           !.ui_enabled = ui_enabled]
    /\ UNCHANGED <<main_vars, calls, presented>>

\* What ui::notify_answer shows, if the OSD is enabled.
osd(text, source, open_in_browser) ==
    IF th.ui_enabled
    THEN <<[channel |-> "osd", text |-> text, source |-> source,
            open_in_browser |-> open_in_browser]>>
    ELSE <<>>

\* What tts::speak_async says.
speech(text) ==
    <<[channel |-> "speech", text |-> text, source |-> "none",
       open_in_browser |-> FALSE]>>

\* Lines 127-137: the connectivity probe (net::has_internet).
Probe ==
    /\ th.pc = "probe"
    /\ \E has_internet \in BOOLEAN :
          IF ~has_internet
          THEN /\ presented' = presented \o osd(OfflineMessage, "none", FALSE)
               /\ th' = [th EXCEPT !.pc = "done", !.online = Some(FALSE)]
          ELSE /\ th' = [th EXCEPT !.pc = "knowledge_check", !.online = Some(TRUE)]
               /\ UNCHANGED presented
    /\ UNCHANGED <<main_vars, calls>>

\* Mutant: a failed knowledge check falls back to the web search.
KnowledgeCheck_escalates_on_error ==
    /\ th.pc = "knowledge_check"
    /\ calls' = Append(calls, [provider |-> "llm",
                               prompt |-> knowledge_prompt(th.question)])
    /\ \E content \in Option(Replies) :
          LET reply == answer_short(content) IN
          IF reply = Err
          THEN th' = [th EXCEPT !.pc = "tavily"]
          ELSE LET res == answer_with_llm_if_known(reply[2]) IN
               IF res = Unknown
               THEN th' = [th EXCEPT !.pc = "tavily", !.out = Some(reply[2]),
                                     !.known = res]
               ELSE th' = [th EXCEPT !.pc = "present", !.out = Some(reply[2]),
                                     !.known = res, !.final = Ok(res[2]),
                                     !.source_label = "mistral"]
    /\ UNCHANGED <<main_vars, presented>>

\* Lines 142-146 with 63-85: the knowledge check.
KnowledgeCheck ==
    /\ th.pc = "knowledge_check"
    /\ calls' = Append(calls, [provider |-> "llm",
                               prompt |-> knowledge_prompt(th.question)])
    /\ \E content \in Option(Replies) :
          LET reply == answer_short(content) IN
          IF reply = Err
          THEN th' = [th EXCEPT !.pc = "present", !.final = Err,
                                !.source_label = "tavily"]
          ELSE LET res == answer_with_llm_if_known(reply[2]) IN
               IF res = Unknown
               THEN th' = [th EXCEPT !.pc = "tavily", !.out = Some(reply[2]),
                                     !.known = res]
               ELSE th' = [th EXCEPT !.pc = "present", !.out = Some(reply[2]),
                                     !.known = res, !.final = Ok(res[2]),
                                     !.source_label = "mistral"]
    /\ UNCHANGED <<main_vars, presented>>

\* Lines 13-55: the unit tests call answer_with_llm_if_known with StubLlm, a
\* client whose answer_short returns its text as it is, untrimmed or empty.
StubKnowledgeCheck ==
    /\ th.pc = "unborn"
    /\ \E question \in Questions, out \in Replies :
          /\ calls' = Append(calls, [provider |-> "llm",
                                     prompt |-> knowledge_prompt(question)])
          /\ th' = [th EXCEPT !.pc = "tested", !.question = question,
                              !.out = Some(out),
                              !.known = answer_with_llm_if_known(out)]
    /\ UNCHANGED <<main_vars, presented>>

\* Mutant: a search that failed or found nothing is tried a second time.
TavilySearch_retries ==
    /\ th.pc = "tavily"
    /\ calls' = Append(calls, [provider |-> "tavily",
                               prompt |-> search_request(th.question)])
    /\ \E response \in Option(TavilyResults) :
          IF response = None \/ facts_text(unwrap_or(response, <<>>)) = Err
          THEN IF Len(calls) < 2
               THEN th' = [th EXCEPT !.results = response]
               ELSE th' = [th EXCEPT !.pc = "present", !.results = response,
                                     !.final = Err, !.source_label = "tavily"]
          ELSE th' = [th EXCEPT !.pc = "compose", !.results = response,
                                !.facts = Some(facts_text(unwrap(response))[2])]
    /\ UNCHANGED <<main_vars, presented>>

\* Line 93 of answer_with_tavily: the web search and its facts block.
TavilySearch ==
    /\ th.pc = "tavily"
    /\ calls' = Append(calls, [provider |-> "tavily",
                               prompt |-> search_request(th.question)])
    /\ \E response \in Option(TavilyResults) :
          IF response = None \/ facts_text(unwrap_or(response, <<>>)) = Err
          THEN th' = [th EXCEPT !.pc = "present", !.results = response,
                                !.final = Err, !.source_label = "tavily"]
          ELSE th' = [th EXCEPT !.pc = "compose", !.results = response,
                                !.facts = Some(facts_text(unwrap(response))[2])]
    /\ UNCHANGED <<main_vars, presented>>

\* Lines 95-101 of answer_with_tavily: the compose step.
Compose ==
    /\ th.pc = "compose"
    /\ calls' = Append(calls, [provider |-> "llm",
                               prompt |-> compose_prompt(th.question,
                                                         unwrap(th.facts))])
    /\ \E content \in Option(Replies) :
          th' = [th EXCEPT !.pc = "present",
                           !.final = answer_short(content),
                           !.source_label = "tavily"]
    /\ UNCHANGED <<main_vars, presented>>

\* Mutant: the facts block, when there is one, is what is shown, and every
\* answer comes with the browser action.
Present_shows_facts ==
    /\ th.pc = "present"
    /\ IF th.final # Err
       THEN presented' = presented
                \o osd(IF is_some(th.facts) THEN unwrap(th.facts) ELSE th.final[2],
                       th.source_label, TRUE)
                \o speech(th.final[2])
       ELSE presented' = presented
                \o osd(ApologyMessage, th.source_label, FALSE)
                \o speech(ApologyMessage)
    /\ th' = [th EXCEPT !.pc = "done"]
    /\ UNCHANGED <<main_vars, calls>>

\* Lines 148-185: the answer, or the fixed apology, is shown and spoken.
Present ==
    /\ th.pc = "present"
    /\ IF th.final # Err
       THEN presented' = presented
                \o osd(th.final[2], th.source_label, th.source_label = "tavily")
                \o speech(th.final[2])
       ELSE presented' = presented
                \o osd(ApologyMessage, th.source_label, FALSE)
                \o speech(ApologyMessage)
    /\ th' = [th EXCEPT !.pc = "done"]
    /\ UNCHANGED <<main_vars, calls>>

SearchNext ==
    \/ Spawn
    \/ StubKnowledgeCheck
    \/ Probe
    \/ KnowledgeCheck
    \/ TavilySearch
    \/ Compose
    \/ Present

SearchSpec == Init /\ [][SearchNext]_vars

(* ------------------------------------------------------------------ *)
(* Properties.                                                        *)
(* ------------------------------------------------------------------ *)
ConfirmationPaths == {"confirm", "cancel", "ignored"}
CommandPaths      == {"command", "dangerous_command"}
QuestionPaths     == {"question_search", "question_llm", "empty_question"}

\* The number of times the intent numbered id has been executed.
Executions(id) == Cardinality({i \in DOMAIN executed : executed[i].id = id})

\* The content of a spool file as the poll reads it.
token_of(content) == lower(trim(unwrap(content)))

\* The transcripts whose normalized form is none of the six reply words.
OtherTexts == {t \in Texts : normalize_short(trim(t)) \notin SixWords}

\* C1: while a confirmation is pending, a transcript whose normalized form is
\* none of the six reply words changes nothing: the pending confirmation stays
\* as it is, nothing is executed, the intent router is not called and no
\* question is dispatched.
C1_OtherInputIgnoredWhilePending ==
    [][(pc = "asr" /\ has_pending /\ last'.path # "none")
          => \A t \in OtherTexts :
                handle_transcript(trim(t))
                => /\ UNCHANGED <<pending, request_seq, executed, outcome>>
                   /\ intents' = intents
                   /\ last'.path = "ignored"]_vars

\* A transcript was ignored while a confirmation was pending.
C1_Witness == last.path = "ignored" /\ has_pending

\* C2: a step that puts a new PendingConfirmation in place is a
\* handle_transcript call made while none was pending, so there is never more
\* than the one the Executor holds.
C2_PendingCreatedOnlyWhenNone ==
    [][(is_some(pending') /\ pending' # pending)
          => /\ ~has_pending
             /\ pc = "asr"
             /\ last'.path = "dangerous_command"
             /\ unwrap(pending').request_id = request_seq + 1]_vars

\* A second confirmation is pending after the first one was destroyed.
C2_Witness == has_pending /\ unwrap(pending).request_id >= 2

\* C3: no routed intent is executed twice, and an accepted intent that is not
\* dangerous has been executed exactly once when handle_transcript returns.
C3_NoDoubleExecution ==
    /\ \A id \in IntentIds : Executions(id) <= 1
    /\ last.path = "command" => Executions(unwrap(last.intent).id) = 1

\* A confirmed dangerous intent was executed, and a "yes" token for a request
\* is still lying in the spool.
C3_Witness ==
    /\ \E i \in DOMAIN executed : executed[i].dangerous
    /\ \E r \in RequestIds : is_some(spool[r]) /\ token_of(spool[r]) = S_yes

\* C4: a tick at or after created_at + timeout clears the pending confirmation
\* without executing it, and an expired intent is never executed afterwards.
C4_TickExpiresWithoutExecuting ==
    /\ [][(/\ pc = "recv"
           /\ pc' \in {"poll", "asr"}
           /\ has_pending
           /\ now >= unwrap(pending).created_at + ConfirmationTimeout)
          => /\ pending' = None
             /\ executed' = executed
             /\ outcome'[unwrap(pending).intent.id] = "Expired"]_vars
    /\ [][\A id \in IntentIds :
             outcome[id] = "Expired" => outcome'[id] = "Expired"]_vars
    /\ [](\A id \in IntentIds : outcome[id] = "Expired" => Executions(id) = 0)

\* A pending confirmation has expired.
C4_Witness == \E id \in IntentIds : outcome[id] = "Expired"

\* C5: with nothing pending, a routed intent whose deterministic score is
\* below the threshold goes down the question path and never reaches the
\* Executor, whatever command id came with it.
C5_BelowThresholdIsQuestion ==
    (/\ is_some(last.intent)
     /\ is_some(unwrap(last.intent).deterministic_score)
     /\ unwrap(unwrap(last.intent).deterministic_score) < cfg.deterministic_threshold)
    => /\ last.path \in QuestionPaths
       /\ Executions(unwrap(last.intent).id) = 0
       /\ outcome[unwrap(last.intent).id] = "None"
       /\ ~has_pending

\* An intent with a command id and a score below the threshold was routed.
C5_Witness ==
    /\ is_some(last.intent)
    /\ is_some(unwrap(last.intent).command_id)
    /\ is_some(unwrap(last.intent).deterministic_score)
    /\ unwrap(unwrap(last.intent).deterministic_score) < cfg.deterministic_threshold
    /\ last.path \in QuestionPaths

\* C6: a routed intent that has a command id but no deterministic score is
\* treated as a question: it is not executed and creates no
\* PendingConfirmation, whatever the threshold.
C6_UnscoredCommandIsQuestion ==
    (/\ is_some(last.intent)
     /\ is_some(unwrap(last.intent).command_id)
     /\ unwrap(last.intent).deterministic_score = None)
    => /\ last.path \in QuestionPaths
       /\ Executions(unwrap(last.intent).id) = 0
       /\ ~has_pending

\* C7: a handle_transcript call takes one path, in priority order: with a
\* confirmation pending only confirmation handling (the router is not called,
\* no request id is handed out); otherwise, for a matched command id whose
\* score passes the threshold, only command handling; otherwise only question
\* handling, which leaves the Executor alone.
C7_OnePathInPriorityOrder ==
    [][(pc = "asr" /\ last'.path # "none")
          => IF has_pending
             THEN /\ last'.path \in ConfirmationPaths
                  /\ last'.intent = None
                  /\ intents' = intents
                  /\ request_seq' = request_seq
                  /\ pending' \in {pending, None}
             ELSE LET r == unwrap(last'.intent) IN
                  /\ intents' = intents + 1
                  /\ IF /\ is_some(r.command_id)
                        /\ unwrap_or(r.deterministic_score, 0) >= cfg.deterministic_threshold
                     THEN /\ last'.path \in CommandPaths
                          /\ outcome'[r.id] \in {"Executed", "AwaitingConfirmation"}
                     ELSE /\ last'.path \in QuestionPaths
                          /\ UNCHANGED exec_vars]_vars

\* A question is handled after an earlier dangerous command was routed and
\* then canceled by a reply.
C7_Witness ==
    /\ last.path \in QuestionPaths
    /\ \E id \in IntentIds : outcome[id] = "Canceled"

\* C8: with nothing pending, an accepted intent that is not dangerous has been
\* executed when handle_transcript returns, and no PendingConfirmation exists.
C8_SafeCommandExecutesAtOnce ==
    (/\ is_some(last.intent)
     /\ is_some(unwrap(last.intent).command_id)
     /\ unwrap_or(unwrap(last.intent).deterministic_score, 0) >= cfg.deterministic_threshold
     /\ ~unwrap(last.intent).dangerous)
    => /\ last.path = "command"
       /\ executed # <<>>
       /\ executed[Len(executed)] = unwrap(last.intent)
       /\ Executions(unwrap(last.intent).id) = 1
       /\ ~has_pending

\* A scored, accepted, harmless command has just been handled.
C8_Witness ==
    /\ last.path = "command"
    /\ is_some(unwrap(last.intent).deterministic_score)
    /\ ~unwrap(last.intent).dangerous

\* The transcripts whose normalized form is an affirmative reply, and those
\* whose normalized form is a negative one.
AffirmativeTexts ==
    {t \in Texts : normalize_short(trim(t)) \in {S_yes, S_confirm, S_do_it}}
NegativeTexts ==
    {t \in Texts : normalize_short(trim(t)) \in {S_no, S_cancel, S_stop}}

\* The step about to be taken handles an affirmative reply to the pending
\* confirmation: such a transcript, or a "yes" token in its spool file.
AffirmativeReply ==
    /\ has_pending
    /\ \/ pc = "asr" /\ \E t \in AffirmativeTexts : handle_transcript(trim(t))
       \/ /\ pc = "poll"
          /\ is_some(spool[unwrap(pending).request_id])
          /\ token_of(spool[unwrap(pending).request_id]) = S_yes

\* The same for a negative reply.
NegativeReply ==
    /\ has_pending
    /\ \/ pc = "asr" /\ \E t \in NegativeTexts : handle_transcript(trim(t))
       \/ /\ pc = "poll"
          /\ pc' = "recv"
          /\ is_some(spool[unwrap(pending).request_id])
          /\ token_of(spool[unwrap(pending).request_id]) = S_no

\* C9: an accepted dangerous intent is stored as the PendingConfirmation and
\* not executed by the call that routed it; a dangerous intent is executed only
\* by a step that handles an affirmative reply, which executes the stored
\* intent and no other and clears the pending state.
C9_DangerousRunsOnlyOnAffirmativeReply ==
    /\ [](last.path = "dangerous_command"
            => /\ has_pending
               /\ unwrap(pending).intent =
                     [unwrap(last.intent) EXCEPT !.requires_confirmation = TRUE]
               /\ Executions(unwrap(last.intent).id) = 0)
    /\ [][(executed' # executed /\ executed'[Len(executed')].dangerous)
             => /\ AffirmativeReply
                /\ executed' = Append(executed, unwrap(pending).intent)
                /\ pending' = None]_vars

\* A spoken affirmative reply has just executed a dangerous intent.
C9_Witness ==
    /\ last.path = "confirm"
    /\ executed # <<>>
    /\ executed[Len(executed)].dangerous

\* C10: a step that handles a negative reply clears the pending confirmation
\* and executes nothing, and a canceled intent is never executed afterwards.
C10_CancelNeverExecutes ==
    /\ [][NegativeReply
             => /\ pending' = None
                /\ executed' = executed
                /\ outcome'[unwrap(pending).intent.id] = "Canceled"]_vars
    /\ [][\A id \in IntentIds :
             outcome[id] = "Canceled" => outcome'[id] = "Canceled"]_vars
    /\ [](\A id \in IntentIds : outcome[id] = "Canceled" => Executions(id) = 0)

\* A pending confirmation was canceled, and a later command was executed.
C10_Witness ==
    /\ \E id \in IntentIds : outcome[id] = "Canceled"
    /\ executed # <<>>

\* The frame-received step of an iteration: rx.recv() returned a frame.
FrameReceived == pc = "recv" /\ heard'.recv = "frame"

\* C11: a frame received in Idle on which porcupine returns false leaves the
\* state Idle and the utterance buffer empty; the buffer is empty whenever the
\* state is Idle.
C11_IdleWithoutWakeStaysIdle ==
    /\ [](state = "Idle" => samples = <<>>)
    /\ [][(FrameReceived /\ state = "Idle" /\ heard'.porcupine = "none")
             => /\ state' = "Idle"
                /\ samples' = <<>>]_vars

\* After at least one utterance was handled, a frame without the wake word was
\* received in Idle.
C11_Witness ==
    /\ state = "Idle"
    /\ heard.recv = "frame"
    /\ heard.porcupine = "none"
    /\ intents > 0

\* C12: the frame on which porcupine returns true, in Idle or in Listening,
\* leaves the buffer empty and the state Listening, and the buffer grows only
\* by frames on which porcupine did not return true.
C12_WakeFrameNeverBuffered ==
    /\ [][(FrameReceived /\ heard'.porcupine = "wake")
             => /\ state \in {"Idle", "Listening"}
                /\ state' = "Listening"
                /\ samples' = <<>>]_vars
    /\ [][Len(samples') > Len(samples)
             => /\ FrameReceived
                /\ heard'.porcupine \in {"none", "unchecked"}
                /\ Len(samples') = Len(samples) + 1]_vars

\* The wake word was heard while a confirmation was pending and armed the
\* listener.
C12_Witness ==
    /\ heard.porcupine = "wake"
    /\ state = "Listening"
    /\ has_pending

\* C13: a frame received in Recording ends the utterance exactly when, after
\* that frame, the accumulated silence has reached silence_duration_ms or the
\* time since the recording started has reached max_utterance_seconds; and
\* when the iteration that ended an utterance is over, with the ASR call
\* succeeded, failed or skipped, the state is Idle, the buffer empty and the
\* silence counter, the start time and the post-wake-speech flag are reset.
C13_UtteranceEndAndReset ==
    /\ [][(FrameReceived /\ state = "Recording")
             => LET f == samples'[Len(samples')]
                    silence == IF ~f.vad /\ f.rms < SilenceThreshold
                               THEN silence_ms + FrameMs ELSE 0
                    due == \/ silence >= SilenceDurationMs
                           \/ now - unwrap(start_time) >= MaxUtterance
                IN IF pc' = "asr" \/ state' = "Idle"
                   THEN due
                   ELSE /\ ~due
                        /\ state' = "Recording"
                        /\ samples' = Append(samples, f)]_vars
    /\ []((pc = "poll" /\ heard.asr # "uncalled")
             => /\ state = "Idle"
                /\ samples = <<>>
                /\ silence_ms = 0
                /\ start_time = None
                /\ ~saw_post_wake_speech)

\* An utterance ended on the time limit while the speaker was still talking.
C13_Witness ==
    /\ pc = "asr"
    /\ silence_ms < SilenceDurationMs
    /\ Len(samples) >= 2

\* C17: every iteration that receives a frame, in whichever listen state and
\* whichever branch it then takes, leaves the Executor as one tick at the
\* current time leaves it: a due confirmation expired, anything else untouched.
C17_TickOnEveryFrame ==
    [][FrameReceived
          => IF has_pending /\ now - unwrap(pending).created_at >= ConfirmationTimeout
             THEN /\ pending' = None
                  /\ outcome' = [outcome EXCEPT ![unwrap(pending).intent.id] = "Expired"]
                  /\ UNCHANGED <<request_seq, executed>>
             ELSE UNCHANGED exec_vars]_vars

\* A confirmation has expired and the frame just received was one of a
\* recording.
C17_Witness ==
    /\ state = "Recording"
    /\ heard.recv = "frame"
    /\ pc = "poll"
    /\ \E id \in IntentIds : outcome[id] = "Expired"

\* C18: once handle_transcript has decided that the transcript is a question,
\* with search enabled or disabled, the loop is back at the head of its body,
\* not inside a call of the LLM or the search provider.
C18_LoopNeverWaitsOnProvider ==
    last.path \in {"question_search", "question_llm"} => pc = "poll"

\* C19: an utterance for which the ASR worker reported an error, as a failed
\* call or in the error field of its response, reaches neither
\* handle_transcript nor the Executor.
C19_AsrErrorDiscardsUtterance ==
    heard.asr \in {"failed", "error_field"} => last = NoLast

\* C20: once rx.recv() has failed the loop is over: nothing is ticked, polled,
\* transcribed or decided afterwards.
C20_ClosedSourceTerminates ==
    /\ [](heard.recv = "closed" => pc = "done")
    /\ [][pc = "done" => UNCHANGED vars]_vars

\* The source closed while a confirmation was pending and due to expire; it is
\* left as it was.
C20_Witness ==
    /\ heard.recv = "closed"
    /\ has_pending
    /\ now - unwrap(pending).created_at >= ConfirmationTimeout

\* C14: for a reply Ok(out) of the knowledge check, the result is Unknown when
\* the trimmed reply is the sentinel or is empty, and otherwise Known with
\* exactly the trimmed reply.
C14_KnowledgeCheckResult ==
    is_some(th.out)
    => LET t == trim(unwrap(th.out)) IN
       IF t = KNOWLEDGE_CHECK_SENTINEL \/ t = <<>>
       THEN th.known = <<"Unknown">>
       ELSE th.known = <<"Known", t>>

\* A vague disclaimer, which is not the sentinel, was taken as the answer.
C14_Witness ==
    /\ is_some(th.out)
    /\ th.known = <<"Known", <<"I"," ","d","o","n","'","t"," ","h","a","v","e"," ",
                              "r","e","a","l","-","t","i","m","e"," ",
                              "d","a","t","a">> >>

\* C15: when the connectivity probe has failed, the thread ends having made no
\* provider call and having presented the fixed offline message.
C15_OfflineMessageAndNoCalls ==
    (th.pc = "done" /\ th.online = Some(FALSE))
    => /\ calls = <<>>
       /\ Len(presented) = 1
       /\ presented[1].text = OfflineMessage

\* C16: when the knowledge check returned the sentinel, the next call is the
\* web search for the question; the facts block is built from its results; the
\* compose call follows only then, its prompt is the compose prompt holding
\* that facts block, and it is not the prompt of the knowledge check.  Without
\* the sentinel there is no search and no compose call.  (The thread is meant;
\* a unit test of the knowledge check stops at its result.)
C16_SentinelThenSearchThenCompose ==
    /\ th.pc \notin {"unborn", "probe", "knowledge_check"} /\ th.known # Unknown
          => Len(calls) <= 1
    /\ (th.known = Unknown /\ th.pc # "tested")
          => /\ calls[1] = [provider |-> "llm",
                            prompt |-> knowledge_prompt(th.question)]
             /\ IF th.pc = "tavily" THEN Len(calls) = 1
                ELSE /\ calls[2].provider = "tavily"
                     /\ calls[2].prompt.question = th.question
                     /\ IF th.facts = None THEN Len(calls) = 2
                        ELSE /\ th.facts = Some(facts_text(unwrap(th.results))[2])
                             /\ IF th.pc = "compose" THEN Len(calls) = 2
                                ELSE /\ Len(calls) = 3
                                     /\ calls[3].provider = "llm"
                                     /\ calls[3].prompt.kind = "compose"
                                     /\ calls[3].prompt.facts = th.facts
                                     /\ calls[3].prompt # calls[1].prompt

\* The answer composed from a facts block of two results has been presented.
C16_Witness ==
    /\ th.pc = "done"
    /\ th.known = Unknown
    /\ Len(calls) = 3
    /\ th.facts = Some(<<"T"," ","-"," ","u","\n","c","\n","\n","d">>)
    /\ th.final # Err

\* The poll about to be taken finds a token in the spool file of the pending
\* request.
PollReadsToken ==
    /\ pc = "poll"
    /\ pc' = "recv"
    /\ has_pending
    /\ is_some(spool[unwrap(pending).request_id])

\* C21: the poll that finds a token for the pending request deletes it and acts
\* on it once: "yes" executes the stored intent and clears the pending state,
\* "no" clears it without executing, anything else leaves the Executor alone.
\* A token leaves the spool only in that poll, so none is read by two
\* iterations, and a token of a request that is not pending is never read.
C21_TokenConsumedOnce ==
    /\ [][PollReadsToken
             => LET rid == unwrap(pending).request_id
                    act == lower(trim(unwrap(spool[rid])))
                IN /\ spool' = [spool EXCEPT ![rid] = None]
                   /\ IF act = S_yes
                      THEN /\ executed' = Append(executed, unwrap(pending).intent)
                           /\ pending' = None
                      ELSE IF act = S_no
                      THEN /\ executed' = executed
                           /\ pending' = None
                      ELSE UNCHANGED exec_vars]_vars
    /\ [][\A r \in RequestIds :
             (is_some(spool[r]) /\ spool'[r] # spool[r])
             => /\ PollReadsToken
                /\ r = unwrap(pending).request_id
                /\ spool'[r] = None]_vars
    /\ [][(pc = "poll" /\ pc' = "recv" /\ ~PollReadsToken)
             => UNCHANGED <<exec_vars, spool>>]_vars

\* The helper of the pending request has written its token, the token is gone
\* from the spool, and the confirmation is still pending: the token was neither
\* "yes" nor "no".
C21_Witness ==
    /\ has_pending
    /\ pending_confirm_request_id = Some(unwrap(pending).request_id)
    /\ unwrap(pending).request_id \notin notified
    /\ spool[unwrap(pending).request_id] = None

\* C22: a pending confirmation is never executed at a time t with
\* t - created_at >= timeout, whether the affirmative is spoken or comes as a
\* "yes" token.  The tick of line 308 is the only deadline test, and it runs
\* before the blocking ASR call and after the poll.
C22_NoExecutionPastDeadline ==
    [][(has_pending /\ executed' = Append(executed, unwrap(pending).intent))
          => now - unwrap(pending).created_at < ConfirmationTimeout]_vars

\* C23: as long as frames keep arriving, a pending confirmation is eventually
\* destroyed, with no word spoken and no token written if need be.  The clock of
\* the model stops at MaxTime, so the statement is made of the confirmations
\* whose deadline the clock can reach.
C23_PendingEventuallyDestroyed ==
    []<><<FrameReceived>>_vars
        => ((has_pending
                /\ unwrap(pending).created_at + ConfirmationTimeout <= MaxTime)
               ~> ~has_pending)

\* A confirmation has expired although its helper was never answered (its
\* request is still among the notified ones) and nothing was being said.
C23_Witness ==
    /\ ~has_pending
    /\ state = "Idle"
    /\ notified # {}
    /\ \E id \in IntentIds : outcome[id] = "Expired"
    /\ \A id \in IntentIds : outcome[id] \notin {"Executed", "Canceled"}
    /\ heard.recv = "frame"

\* C24: the web search is called only when the knowledge check has returned
\* Unknown; when it returned Known, or failed, the thread ends with the one
\* call of the knowledge check: no search call and no second LLM call.
C24_SearchOnlyWhenUnknown ==
    /\ [][(Len(calls') > Len(calls) /\ calls'[Len(calls')].provider = "tavily")
             => th.known = Unknown]_vars
    /\ [](\A i \in 1..Len(calls) :
             calls[i].provider = "tavily" => th.known = Unknown)
    /\ []((th.pc \in {"present", "done"} /\ th.online = Some(TRUE)
              /\ th.known # Unknown)
             => calls = <<[provider |-> "llm",
                           prompt |-> knowledge_prompt(th.question)]>>)

\* The knowledge check failed and the thread has ended after that one call.
C24_Witness ==
    /\ th.pc = "done"
    /\ th.online = Some(TRUE)
    /\ th.known = None
    /\ th.final = Err
    /\ Len(calls) = 1

\* The thread has ended with an answer.
Succeeded ==
    /\ th.pc = "done"
    /\ th.online = Some(TRUE)
    /\ th.final \notin {None, Err}

\* C25: on success what is presented is the answer and nothing else: one
\* notification (when the OSD is enabled) holding the answer and its source
\* label, with the browser action exactly when the source is the web search,
\* and the answer spoken once; the answer of a Known knowledge check is that
\* check's answer, and the facts block is in no notification and no speech.
C25_OnlyAnswerPresented ==
    Succeeded
    => LET answer   == th.final[2]
           searched == th.known = Unknown
           shown    == [channel |-> "osd", text |-> answer,
                        source |-> IF searched THEN "tavily" ELSE "mistral",
                        open_in_browser |-> searched]
           spoken   == [channel |-> "speech", text |-> answer,
                        source |-> "none", open_in_browser |-> FALSE]
       IN /\ presented = IF th.ui_enabled THEN <<shown, spoken>> ELSE <<spoken>>
          /\ ~searched => th.known = Known(answer)
          /\ searched <=> is_some(th.facts)
          /\ \A i \in 1..Len(presented) :
                is_some(th.facts) => presented[i].text # unwrap(th.facts)

\* An answer composed from search results was shown with the browser action.
C25_Witness ==
    /\ Succeeded
    /\ is_some(th.facts)
    /\ Len(presented) = 2
    /\ presented[1].open_in_browser
    /\ presented[1].source = "tavily"

\* The number of calls made with a prompt of the given kind.
CallsOfKind(kind) ==
    Cardinality({i \in 1..Len(calls) : calls[i].prompt.kind = kind})

\* C26: when the knowledge check fails, the search fails or finds nothing, or
\* the compose call fails or answers nothing, the thread ends having presented
\* the fixed apology once (one notification when the OSD is enabled, one
\* speech) and having made no call after the one that failed; a question is
\* probed once and causes at most one call of each kind.
C26_FailureApologisesOnce ==
    /\ []((th.pc = "done" /\ th.online = Some(TRUE) /\ th.final = Err)
             => LET shown  == [channel |-> "osd", text |-> ApologyMessage,
                               source |-> "tavily", open_in_browser |-> FALSE]
                    spoken == [channel |-> "speech", text |-> ApologyMessage,
                               source |-> "none", open_in_browser |-> FALSE]
                IN presented = IF th.ui_enabled THEN <<shown, spoken>>
                               ELSE <<spoken>>)
    /\ [](th.final = Err
             => Len(calls) = IF th.known = None THEN 1
                             ELSE IF th.facts = None THEN 2 ELSE 3)
    /\ []((th.pc \in {"present", "done"} /\ th.known = Unknown /\ th.facts = None)
             => th.final = Err)
    /\ [](/\ CallsOfKind("knowledge_check") <= 1
          /\ CallsOfKind("search") <= 1
          /\ CallsOfKind("compose") <= 1)
    /\ [][th.final = Err => calls' = calls]_vars
    /\ [][th'.online # th.online => (th.online = None /\ th.pc = "probe")]_vars

\* The compose call failed, after a knowledge check and a search that did not,
\* and the apology was shown and spoken.
C26_Witness ==
    /\ th.pc = "done"
    /\ th.final = Err
    /\ Len(calls) = 3
    /\ Len(presented) = 2
    /\ presented[2].text = ApologyMessage

\* The frame of the iteration about to end is speech by either signal.
FrameIsSpeech ==
    LET f == unwrap(heard'.frame) IN f.vad \/ f.rms >= SilenceThreshold

C28_SameSpeechDecision ==
    /\ [](\A f \in Frames :
             /\ listening_speech(f) <=> (f.vad \/ f.rms >= SilenceThreshold)
             /\ recording_silence(f) <=> ~listening_speech(f))
    /\ [][(FrameReceived /\ state = "Listening" /\ heard'.porcupine = "none")
             => (state' = "Recording" <=> FrameIsSpeech)]_vars
    /\ [][(FrameReceived /\ state = "Recording" /\ state' = "Recording")
             => silence_ms' = IF FrameIsSpeech THEN 0
                              ELSE silence_ms + FrameMs]_vars

\* A loud frame the classifier did not take for speech was received in
\* Recording and counted as speech: the recording goes on.
C28_Witness ==
    /\ state = "Recording"
    /\ pc = "poll"
    /\ heard.frame = Some([vad |-> FALSE, rms |-> SilenceThreshold])
    /\ silence_ms = 0
    /\ Len(samples) = 2

\* C29: the buffer is empty until the recording starts; the frame that starts
\* it, a speech frame received in Listening, is its first element; every frame
\* received in Recording is appended, the one on which the utterance ends
\* included; the buffer ASR is called with is not touched during the call, and
\* apart from that the buffer is only ever cleared.
C29_UtteranceIsFramesInOrder ==
    /\ [](state \in {"Idle", "Listening"} => samples = <<>>)
    /\ [][(FrameReceived /\ state = "Listening" /\ state' = "Recording")
             => /\ FrameIsSpeech
                /\ samples' = <<unwrap(heard'.frame)>>]_vars
    /\ [][(FrameReceived /\ state = "Recording")
             => samples' = Append(samples, unwrap(heard'.frame))]_vars
    /\ [][(pc = "asr" /\ pc' = "asr") => samples' = samples]_vars
    /\ [][samples' # samples => (FrameReceived \/ samples' = <<>>)]_vars

\* A second utterance, of a speech frame and the quiet frame that ended it, is
\* about to be transcribed.
C29_Witness ==
    /\ pc = "asr"
    /\ intents > 0
    /\ samples = <<[vad |-> FALSE, rms |-> SilenceThreshold],
                   [vad |-> FALSE, rms |-> 0]>>
    /\ heard.frame = Some([vad |-> FALSE, rms |-> 0])

\* C30: in Recording the post-wake-speech flag is set, the start time is set
\* and the buffer is not empty; ASR is called with a buffer that is not empty;
\* no utterance end skips the ASR call; and the call made at an utterance end
\* gives one result, after which the utterance is over: the loop goes on to the
\* transcript and the reset, not back to ASR.
C30_RecordingInvariant ==
    /\ [](state = "Recording"
             => /\ saw_post_wake_speech
                /\ is_some(start_time)
                /\ samples # <<>>)
    /\ [](pc = "asr" => (state = "Recording" /\ samples # <<>>))
    /\ [](heard.asr # "skipped")
    /\ [][heard.asr # "uncalled" => heard'.asr \in {heard.asr, "uncalled"}]_vars
    /\ [][(pc = "asr" /\ pc' # "asr")
             => /\ heard.asr = "uncalled"
                /\ heard'.asr \in {"ok", "error_field", "failed"}
                /\ pc' \in {"poll", "llm"}
                /\ pc' = "poll" => (state' = "Idle" /\ samples' = <<>>)]_vars
    /\ [][pc = "llm" => pc' \in {"llm", "poll"}]_vars

\* An utterance has ended on silence while a confirmation was pending, and ASR
\* is being called with it.
C30_Witness ==
    /\ pc = "asr"
    /\ state = "Recording"
    /\ saw_post_wake_speech
    /\ silence_ms >= SilenceDurationMs
    /\ has_pending

\* The number of silent frames at the end of a buffer: those received since
\* the most recent speech frame.
RECURSIVE TrailingSilence(_)
TrailingSilence(buffer) ==
    IF buffer = <<>> THEN 0
    ELSE LET f == buffer[Len(buffer)] IN
         IF f.vad \/ f.rms >= SilenceThreshold THEN 0
         ELSE 1 + TrailingSilence(SubSeq(buffer, 1, Len(buffer) - 1))

\* C31: in Recording the silence counter is frame_ms times the number of
\* silent frames received since the most recent speech frame; a speech frame
\* sets it to zero; and an utterance that ends before the time limit ends on as
\* many silent frames in a row as the silence duration asks for.
C31_SilenceIsConsecutive ==
    /\ [](state = "Recording" => silence_ms = FrameMs * TrailingSilence(samples))
    /\ [][(FrameReceived /\ state = "Recording" /\ FrameIsSpeech)
             => silence_ms' = 0]_vars
    /\ [][(FrameReceived /\ state = "Recording" /\ pc' = "asr"
              /\ now - unwrap(start_time) < MaxUtterance)
             => FrameMs * TrailingSilence(samples') >= cfg.silence_duration_ms]_vars

\* A silent frame, a speech frame and another silent frame were recorded: two
\* silent frames in all, one since the last speech, and the recording goes on.
C31_Witness ==
    /\ state = "Recording"
    /\ pc = "poll"
    /\ Len(samples) = 4
    /\ TrailingSilence(samples) = 1
    /\ TrailingSilence(SubSeq(samples, 1, 2)) = 1
    /\ silence_ms = FrameMs
    /\ cfg.silence_duration_ms = 2 * FrameMs

\* C32: as long as frames keep arriving, with the clock running, a recording
\* whose time limit the clock can reach is followed by the state Idle; and the
\* frame received once the time limit has passed ends the utterance whether it
\* is speech or silence.
C32_RecordingTerminates ==
    /\ []<><<FrameReceived>>_vars
          => ((state = "Recording"
                  /\ unwrap(start_time) + MaxUtterance <= MaxTime)
                 ~> state = "Idle")
    /\ [][(FrameReceived /\ state = "Recording"
              /\ now - unwrap(start_time) >= MaxUtterance)
             => pc' = "asr"]_vars

\* The frame that ended a recording was speech: the speaker was cut off by the
\* time limit, and the state is Idle again.
C32_Witness ==
    /\ pc = "poll"
    /\ state = "Idle"
    /\ heard.asr # "uncalled"
    /\ heard.frame = Some([vad |-> TRUE, rms |-> 0])

\* C33: the direct LLM call, made with search disabled and nothing pending,
\* always returns to the loop: a failed request or an empty answer presents
\* the fallback text in place of an answer, the iteration ends with the reset
\* every utterance ends with, the Executor is left as it was, and run() never
\* returns because of the call.
C33_LlmFailureFallsBack ==
    /\ [](pc = "llm" => (~cfg.search_enabled /\ ~has_pending))
    /\ [][(pc = "llm" /\ pc' # "llm")
             => /\ pc' = "poll"
                /\ heard'.llm \in {"ok", "http_error", "empty"}
                /\ (heard'.llm # "ok") <=> (heard'.answer = Some(FallbackMessage))
                /\ UNCHANGED <<exec_vars, pending_confirm_request_id>>
                /\ state' = "Idle"
                /\ samples' = <<>>
                /\ silence_ms' = 0
                /\ start_time' = None
                /\ ~saw_post_wake_speech']_vars
    /\ [](pc = "done" => heard.llm = "uncalled")
    /\ [](heard.llm = "uncalled" <=> heard.answer = None)

\* The model answered with white space only; the fallback text was presented
\* and the loop is at the head of its body, Idle.
C33_Witness ==
    /\ pc = "poll"
    /\ state = "Idle"
    /\ heard.llm = "empty"
    /\ heard.answer = Some(FallbackMessage)

\* C34: a poll touches no spool file but the one of the pending request, and
\* none when nothing is pending; and a poll that finds no file for the pending
\* request leaves the Executor as it is, whatever lies in the files of other
\* requests.
C34_TokenKeyedByRequest ==
    /\ [][(pc = "poll" /\ pc' = "recv")
             => \A r \in RequestIds :
                   pending_request_id # Some(r) => spool'[r] = spool[r]]_vars
    /\ [][(pc = "poll" /\ pc' = "recv"
              /\ (has_pending => spool[unwrap(pending).request_id] = None))
             => UNCHANGED exec_vars]_vars

\* A "yes" written for an earlier request lies in the spool while another
\* confirmation, already announced by a poll, is still pending.
C34_Witness ==
    /\ pc = "recv"
    /\ has_pending
    /\ pending_confirm_request_id = pending_request_id
    /\ \E r \in RequestIds :
          /\ r # unwrap(pending).request_id
          /\ is_some(spool[r])
          /\ lower(trim(unwrap(spool[r]))) = S_yes

====
